---- MODULE Spec2Model ----
(***************************************************************************)
(* Model of the phishing-detection API (src/app/server.py).                *)
(*                                                                         *)
(* Strings are sequences of one-character strings, so that urlparse, the   *)
(* regular expression of having_ip_address and the substring tests of the  *)
(* signal functions are computed on the characters, as the code does.      *)
(* A signal function's outcome is a record [exc, val]: exc = "none" and    *)
(* val the returned signal, or exc the name of the exception that leaves   *)
(* the function.                                                           *)
(* Confidences are integers on the scale 0..Scale (Scale stands for 1.0).  *)
(* Dates are day numbers; day 0 is the day the model starts.               *)
(***************************************************************************)
EXTENDS Integers, Sequences, FiniteSets, TLC

\* ------------------------------------------------------------------ bounds
\* The clock can advance by at most MaxTicks days during a run.
MaxTicks == 1
\* Probabilities are multiples of 1/Scale.
Scale == 10
\* Number of padding characters of the longer test URLs.
PadShort == 50
PadLong == 70

\* ------------------------------------------------------------------- state
VARIABLES
    pc,         \* where the request in progress is
    url,        \* test_url: the normalized URL of the request in progress
    clock,      \* the current day
    net,        \* Live or a pinned scenario
    gate,       \* what the DNS lookup of the gate ended in ("none": not made)
    dns2,       \* what the DNS lookup of slot 25 ended in ("none": not made)
    nowSeen,    \* the day datetime.now() gave age_of_domain (-1: not read)
    features,   \* the list predict_url is building
    vals,       \* signal function name -> the value it returned in this request
    calls,      \* calls made to the collaborators in this request
    oracleOut,  \* what the oracle calls of this request did
    exc,        \* the exception that left predict_url ("none": none)
    ret,        \* the pair predict_url returned
    response,   \* the body the endpoint returned
    prev,       \* under a pinned network: the previous request and its result
    sig         \* the last direct call of a signal function and its outcome

\* ------------------------------------------------------- string primitives
Digits == {"0","1","2","3","4","5","6","7","8","9"}
Lowers == {"a","b","c","d","e","f","g","h","i","j","k","l","m",
           "n","o","p","q","r","s","t","u","v","w","x","y","z"}
Uppers == {"A","B","C","D","N","O"}

\* str.lower() on the characters that occur in the model
LowerChar(c) ==
    CASE c = "A" -> "a" [] c = "B" -> "b" [] c = "C" -> "c"
      [] c = "D" -> "d" [] c = "N" -> "n" [] c = "O" -> "o"
      [] OTHER -> c

Lower(s) == [i \in 1..Len(s) |-> LowerChar(s[i])]

\* s.startswith(p)
StartsWith(s, p) == Len(s) >= Len(p) /\ SubSeq(s, 1, Len(p)) = p

\* sub in s
Contains(s, sub) ==
    \E i \in 1..(Len(s) - Len(sub) + 1) : SubSeq(s, i, i + Len(sub) - 1) = sub

HasChar(s, c) == \E i \in 1..Len(s) : s[i] = c

\* s.count(c)
CountChar(s, c) == Cardinality({i \in 1..Len(s) : s[i] = c})

\* index of the first character of s that is in cs, Len(s)+1 when there is none
FirstOf(s, cs) ==
    IF \E i \in 1..Len(s) : s[i] \in cs
    THEN CHOOSE i \in 1..Len(s) : s[i] \in cs /\ \A j \in 1..(i - 1) : s[j] \notin cs
    ELSE Len(s) + 1

From(s, i) == SubSeq(s, i, Len(s))

Pad(n) == [i \in 1..n |-> "a"]

HTTP_PREFIX == <<"h","t","t","p",":","/","/">>
HTTPS_PREFIX == <<"h","t","t","p","s",":","/","/">>
HTTPS == <<"h","t","t","p","s">>
SLASHES == <<"/","/">>

\* ------------------------------------------------------------------ results
Ret(v) == [exc |-> "none", val |-> v]
Raise(e) == [exc |-> e, val |-> 0]

\* ----------------------------------------------------------- URL normalizer
\* urllib.parse.urlparse, as far as scheme, netloc and path go: the scheme is
\* the text before the first ":" when it is made of scheme characters, the
\* netloc the text after "//" up to the first "/", "?" or "#", the path what
\* follows up to "?" or "#". A netloc with an unbalanced bracket raises
\* ValueError (ok = FALSE).
ParseError == [ok |-> FALSE, scheme |-> <<>>, hasNetloc |-> FALSE, netloc |-> <<>>,
               path |-> <<>>]

\* the path of what follows the netloc
PathOf(rest) == SubSeq(rest, 1, FirstOf(rest, {"?", "#"}) - 1)

\* after: the text behind "//"; delim: where its netloc ends
SplitNetloc(scheme, after, delim) ==
    IF HasChar(SubSeq(after, 1, delim - 1), "[") # HasChar(SubSeq(after, 1, delim - 1), "]")
    THEN ParseError
    ELSE [ok |-> TRUE, scheme |-> scheme, hasNetloc |-> TRUE,
          netloc |-> SubSeq(after, 1, delim - 1), path |-> PathOf(From(after, delim))]

\* rest: the text behind the scheme
SplitRest(scheme, rest) ==
    IF StartsWith(rest, SLASHES)
    THEN SplitNetloc(scheme, From(rest, 3), FirstOf(From(rest, 3), {"/", "?", "#"}))
    ELSE [ok |-> TRUE, scheme |-> scheme, hasNetloc |-> FALSE, netloc |-> <<>>,
          path |-> PathOf(rest)]

\* colon: the place of the first ":" of url
SplitScheme(u, colon) ==
    IF /\ colon <= Len(u)
       /\ colon > 1
       /\ u[1] \in Lowers \cup Uppers
       /\ \A i \in 1..(colon - 1) :
              u[i] \in Lowers \cup Uppers \cup Digits \cup {"+", "-", "."}
    THEN SplitRest(Lower(SubSeq(u, 1, colon - 1)), From(u, colon + 1))
    ELSE SplitRest(<<>>, u)

urlparse(u) == SplitScheme(u, FirstOf(u, {":"}))

\* get_domain: the netloc, or None (none = TRUE) when urlparse raises
NetlocOf(p) ==
    IF p.ok THEN [none |-> FALSE, s |-> p.netloc] ELSE [none |-> TRUE, s |-> <<>>]

get_domain(u) == NetlocOf(urlparse(u))

\* urllib.parse.urljoin(base, rel) as far as the netloc of the result goes: a
\* rel with its own scheme or netloc keeps it, any other rel gets the base's
\* scheme and netloc. Raises ValueError (ok = FALSE) when either part has an
\* unbalanced bracket in its netloc.
JoinParsed(base, rel, b, r) ==
    IF ~b.ok \/ ~r.ok THEN [ok |-> FALSE, joined |-> <<>>]
    ELSE IF rel = <<>> THEN [ok |-> TRUE, joined |-> base]
    ELSE IF r.scheme # <<>> /\ r.scheme # b.scheme THEN [ok |-> TRUE, joined |-> rel]
    ELSE IF r.hasNetloc
         THEN [ok |-> TRUE, joined |-> b.scheme \o <<":">> \o SLASHES \o r.netloc \o r.path]
    ELSE [ok |-> TRUE,
          joined |-> b.scheme \o <<":">> \o SLASHES \o b.netloc
                  \o (IF StartsWith(r.path, <<"/">>) THEN <<>> ELSE <<"/">>) \o r.path]

urljoin(base, rel) == JoinParsed(base, rel, urlparse(base), urlparse(rel))

\* whether urljoin(url, ref) names another netloc than url does
OtherHost(u, ref) == get_domain(urljoin(u, ref).joined) # get_domain(u)

\* ------------------------------------------------------- lexical signal set
\* re.match(r"^\d{1,3}\.\d{1,3}\.\d{1,3}\.\d{1,3}$", s)
IsDottedQuad(s) ==
    LET dots == {i \in 1..Len(s) : s[i] = "."}
        marks == dots \cup {0, Len(s) + 1}
    IN  /\ \A i \in 1..Len(s) : s[i] \in Digits \cup {"."}
        /\ Cardinality(dots) = 3
        /\ \A b \in marks \ {Len(s) + 1} :
              LET nxt == CHOOSE c \in marks : c > b /\ \A e \in marks : e > b => c <= e
              IN  nxt - b - 1 \in 1..3

having_ip_address(u) ==
    LET domain == get_domain(u)
    IN  IF domain.none THEN Ret(-1)            \* re.match(None): TypeError, caught
        ELSE IF IsDottedQuad(domain.s) THEN Ret(-1)
        ELSE Ret(1)

url_length(u) ==
    IF Len(u) < 54 THEN Ret(1)
    ELSE IF 54 <= Len(u) /\ Len(u) <= 75 THEN Ret(0)
    ELSE Ret(-1)

shortening_services ==
    { <<"b","i","t",".","l","y">>, <<"g","o","o",".","g","l">>, <<"t",".","c","o">>,
      <<"t","i","n","y","u","r","l",".","c","o","m">>, <<"i","s",".","g","d">>,
      <<"c","l","i",".","g","s">>, <<"t","r",".","i","m">>, <<"o","w",".","l","y">>,
      <<"t","i","n","y",".","c","c">> }

shortening_service(u) ==
    LET domain == get_domain(u)
    IN  IF ~domain.none /\ domain.s \in shortening_services THEN Ret(-1) ELSE Ret(1)

having_at_symbol(u) == IF HasChar(u, "@") THEN Ret(-1) ELSE Ret(1)

double_slash_redirecting(u) ==
    LET p == urlparse(u)
    IN  IF ~p.ok THEN Raise("ValueError")
        ELSE IF StartsWith(p.path, SLASHES) \/ Contains(From(p.path, 2), SLASHES)
             THEN Ret(-1)
        ELSE Ret(1)

prefix_suffix(u) ==
    LET domain == get_domain(u)
    IN  IF domain.none THEN Raise("TypeError")     \* "-" in None
        ELSE IF HasChar(domain.s, "-") THEN Ret(-1)
        ELSE Ret(1)

having_sub_domain(u) ==
    LET domain == get_domain(u)
    IN  IF domain.none THEN Raise("AttributeError")    \* None.count
        ELSE LET dots == CountChar(domain.s, ".")
             IN  IF dots = 2 THEN Ret(0)
                 ELSE IF dots > 2 THEN Ret(-1)
                 ELSE Ret(1)

ssl_final_state(u) == IF StartsWith(u, HTTPS) THEN Ret(1) ELSE Ret(-1)

\* ------------------------------------------------------- network signal set
\* What the resolver's network query can end in.
DnsOutcomes == {"ok", "NXDOMAIN", "NoAnswer", "Timeout", "NoNameservers"}

\* dns.resolver.resolve(qname, 'A'): a qname of None fails on its first use
\* (AttributeError), a name with an empty label is rejected when the text is
\* parsed (dns.name.EmptyLabel); the empty name is the root, which has no A
\* record; any other name ends in the network outcome d.
resolve(qname, d) ==
    IF qname.none THEN "AttributeError"
    ELSE IF Contains(qname.s, <<".", ".">>) \/ (Len(qname.s) > 1 /\ qname.s[1] = ".")
         THEN "EmptyLabel"
    ELSE IF qname.s = <<>> /\ d = "ok" THEN "NoAnswer"
    ELSE d

dns_record_caught == {"NoAnswer", "NXDOMAIN", "Timeout"}

dns_record(u, d) ==
    LET o == resolve(get_domain(u), d)
    IN  IF o = "ok" THEN Ret(1)
        ELSE IF o \in dns_record_caught THEN Ret(-1)
        ELSE Raise(o)

\* A WHOIS answer: err = TRUE when whois.whois raises; a date field is None
\* (days = <<>>), one datetime (list = FALSE) or a list of datetimes; text is
\* str(w).
NoDate == [list |-> FALSE, days |-> <<>>]
OneDate(d) == [list |-> FALSE, days |-> <<d>>]
DateList(ds) == [list |-> TRUE, days |-> ds]

\* truth value of a date field: None and the empty list are false
Truthy(dt) == dt.days # <<>>

\* w.x[0] if isinstance(w.x, list) else w.x
FirstDate(dt) == dt.days[1]

WhoisError == [err |-> TRUE, creation_date |-> NoDate, expiration_date |-> NoDate,
               text |-> <<>>]

WhoisOutcomes ==
    { WhoisError,
      \* long-lived registration, upper-case registry record
      [err |-> FALSE, creation_date |-> OneDate(-2000), expiration_date |-> OneDate(366),
       text |-> <<"D","o","m","a","i","n"," ","N","a","m","e",":"," ","A",".","C","O">>],
      \* registered 179 days ago for exactly 365 days, dates given as lists
      [err |-> FALSE, creation_date |-> DateList(<<-179, -100>>),
       expiration_date |-> DateList(<<186>>),
       text |-> <<"D","o","m","a","i","n"," ","N","a","m","e",":"," ","B",".","C","O">>],
      \* record without dates
      [err |-> FALSE, creation_date |-> NoDate, expiration_date |-> NoDate, text |-> <<>>] }

\* mutant: the span is measured from today instead of from the creation date
domain_registration_length_from_today(u, w) ==
    LET domain == get_domain(u)
    IN  IF domain.none \/ w.err THEN Ret(-1)
        ELSE IF Truthy(w.expiration_date) /\ Truthy(w.creation_date)
             THEN IF FirstDate(w.expiration_date) - clock <= 365 THEN Ret(-1) ELSE Ret(1)
        ELSE Ret(1)

domain_registration_length(u, w) ==
    LET domain == get_domain(u)
    IN  IF domain.none \/ w.err THEN Ret(-1)
        ELSE IF Truthy(w.expiration_date) /\ Truthy(w.creation_date)
             THEN LET exp == FirstDate(w.expiration_date)
                      cre == FirstDate(w.creation_date)
                  IN  IF exp - cre <= 365 THEN Ret(-1) ELSE Ret(1)   \* days / 365 <= 1
        ELSE Ret(1)

age_of_domain(u, w, now) ==
    LET domain == get_domain(u)
    IN  IF domain.none \/ w.err THEN Ret(-1)
        ELSE IF Truthy(w.creation_date)
             THEN IF now - FirstDate(w.creation_date) < 180 THEN Ret(-1) ELSE Ret(1)
        ELSE Ret(1)

abnormal_url(u, w) ==
    LET domain == get_domain(u)
    IN  IF domain.none \/ w.err THEN Ret(-1)
        ELSE IF ~Contains(Lower(w.text), Lower(domain.s)) THEN Ret(-1)
        ELSE Ret(1)

\* ------------------------------------------------------- content signal set
\* An HTTP answer: net_error (connection error, timeout), or a status code with
\* the parsed page: its icon links, img elements and a elements in document
\* order, each with its attribute present or not.
Elem(a) == [has_attr |-> TRUE, attr |-> a]
ElemNoAttr == [has_attr |-> FALSE, attr |-> <<>>]
Rep(x, n) == [i \in 1..n |-> x]

HttpError == [net_error |-> TRUE, status |-> 0, icons |-> <<>>, imgs |-> <<>>, anchors |-> <<>>]
Page(st, icons, imgs, anchors) ==
    [net_error |-> FALSE, status |-> st, icons |-> icons, imgs |-> imgs, anchors |-> anchors]

Href_rel == <<"/","i",".","p","n","g">>
Href_ext == <<"h","t","t","p","s",":","/","/","c","d","n",".","i","o","/","i",".","p","n","g">>
Href_proto == <<"/","/","c","d","n",".","i","o","/","i",".","p","n","g">>
Href_bad == <<"h","t","t","p",":","/","/","[","x","/","i",".","p","n","g">>
Href_frag == <<"#","t","o","p">>
Href_mail == <<"m","a","i","l","t","o",":","u","@","a",".","c","o">>
Href_js == <<"j","a","v","a","s","c","r","i","p","t",":","v","o","i","d","(","0",")">>

\* get_soup: None (none = TRUE) on any RequestException: a URL requests cannot
\* prepare (unparsable, or without host), a network error, a status >= 400.
Unpreparable(p) == ~p.ok \/ p.netloc = <<>>

get_soup(u, r) ==
    IF Unpreparable(urlparse(u)) \/ r.net_error \/ r.status >= 400
    THEN [none |-> TRUE, icons |-> <<>>, imgs |-> <<>>, anchors |-> <<>>]
    ELSE [none |-> FALSE, icons |-> r.icons, imgs |-> r.imgs, anchors |-> r.anchors]

favicon(u, r) ==
    IF get_soup(u, r).none THEN Ret(-1)
    ELSE IF r.icons # <<>> /\ r.icons[1].has_attr
         THEN IF ~urljoin(u, r.icons[1].attr).ok THEN Raise("ValueError")
              ELSE IF OtherHost(u, r.icons[1].attr) THEN Ret(-1)
              ELSE Ret(1)
    ELSE Ret(1)

\* The loop of request_url over the img elements: whether urljoin raises in
\* it, image_count and external_image_count.
scan_imgs(u, imgs) ==
    [raised |-> \E i \in 1..Len(imgs) : imgs[i].has_attr /\ ~urljoin(u, imgs[i].attr).ok,
     n |-> Cardinality({i \in 1..Len(imgs) : imgs[i].has_attr}),
     e |-> Cardinality({i \in 1..Len(imgs) :
                           imgs[i].has_attr /\ OtherHost(u, imgs[i].attr)})]

\* mutant: a ratio of exactly 22% still counts as low
request_url_bucket_le(n, e) ==
    IF 100 * e <= 22 * n THEN 1
    ELSE IF 100 * e < 61 * n THEN 0
    ELSE -1

\* percentage = (e / n) * 100 against the thresholds, as 100 * e against
\* threshold * n (the floating-point comparisons of the code agree with the
\* exact ones for every n up to 2000)
request_url_bucket(n, e) ==
    IF 100 * e < 22 * n THEN 1
    ELSE IF 22 * n <= 100 * e /\ 100 * e < 61 * n THEN 0
    ELSE -1

RatioSignal(c) ==
    IF c.raised THEN Raise("ValueError")
    ELSE IF c.n = 0 THEN Ret(1)
    ELSE Ret(request_url_bucket(c.n, c.e))

request_url(u, r) ==
    IF get_soup(u, r).none THEN Ret(-1) ELSE RatioSignal(scan_imgs(u, r.imgs))

\* hrefs url_of_anchor does not count
ignored_href(href) ==
    \/ StartsWith(href, <<"#">>)
    \/ StartsWith(href, <<"m","a","i","l","t","o",":">>)
    \/ Contains(href, Href_js)

\* The loop of url_of_anchor over the a elements: whether urljoin raises in
\* it, anchor_count and external_anchor_count.
scan_anchors(u, anchors) ==
    [raised |-> \E i \in 1..Len(anchors) :
                   /\ anchors[i].has_attr
                   /\ ~ignored_href(anchors[i].attr)
                   /\ ~urljoin(u, anchors[i].attr).ok,
     n |-> Cardinality({i \in 1..Len(anchors) :
                           anchors[i].has_attr /\ ~ignored_href(anchors[i].attr)}),
     e |-> Cardinality({i \in 1..Len(anchors) :
                           /\ anchors[i].has_attr
                           /\ ~ignored_href(anchors[i].attr)
                           /\ OtherHost(u, anchors[i].attr)})]

AnchorSignal(c) ==
    IF c.raised THEN Raise("ValueError")
    ELSE IF c.n = 0 THEN Ret(1)
    ELSE IF 100 * c.e < 31 * c.n THEN Ret(1)
    ELSE IF 31 * c.n <= 100 * c.e /\ 100 * c.e < 67 * c.n THEN Ret(0)
    ELSE Ret(-1)

url_of_anchor(u, r) ==
    IF get_soup(u, r).none THEN Ret(-1) ELSE AnchorSignal(scan_anchors(u, r.anchors))

\* ------------------------------------------- static / unavailable signal set
web_traffic(u) == Ret(0)
page_rank(u) == Ret(0)
google_index(u) == Ret(1)
links_pointing_to_page(u) == Ret(0)
port(u) == Ret(1)
https_token(u) == Ret(1)
links_in_tags(u) == Ret(1)
sfh(u) == Ret(1)
submitting_to_email(u) == Ret(1)
redirect(u) == Ret(1)
on_mouseover(u) == Ret(1)
right_click(u) == Ret(1)
popup_window(u) == Ret(1)
iframe(u) == Ret(1)
statistical_report(u) == Ret(1)

\* ------------------------------------------------------------------ inputs
\* What a caller passes as the url parameter of /predict.
RawUrls ==
    { <<"a",".","c","o">>,
      <<"h","t","t","p",":","/","/","1",".","2",".","3",".","4","/","l">>,
      <<"t",".","c","o","/","x">>,
      <<"a","-","b",".","c","o">>,
      <<"m",".","a",".","c","o">>,
      <<"x",".","m",".","a",".","c","o">>,
      <<"a",".","c","o","/","x","/","/","y">>,
      <<"u","@","a",".","c","o">>,
      <<"[","x">>,
      <<"/","p">>,
      <<"a",".",".","c","o">>,
      <<"a",".","c","o","/">> \o Pad(PadShort),
      <<"a",".","c","o","/">> \o Pad(PadLong) }

\* Pages a fetch can return in a classification request.
HttpResponses ==
    { HttpError,
      Page(404, <<>>, <<>>, <<>>),
      \* no icon, no image, no anchor
      Page(200, <<>>, <<>>, <<>>),
      \* icon and half of the images from another host, one anchor in three external
      Page(200, <<Elem(Href_proto)>>, <<Elem(Href_rel), Elem(Href_ext), ElemNoAttr>>,
           <<Elem(Href_frag), Elem(Href_mail), Elem(Href_js), ElemNoAttr,
             Elem(Href_ext), Elem(Href_rel), Elem(Href_rel)>>),
      \* icon link without href, everything else external
      Page(200, <<ElemNoAttr>>, <<Elem(Href_ext)>>, <<Elem(Href_ext)>>),
      \* malformed references
      Page(200, <<Elem(Href_bad)>>, <<Elem(Href_rel), Elem(Href_bad)>>,
           <<Elem(Href_bad)>>) }

\* Class-probability distributions of the oracle, in units of 1/Scale.
ProbDists ==
    { <<Scale, 0, 0>>, <<1, Scale - 3, 2>>, <<Scale - 6, 3, 3>> }

NoOracle == [predict_err |-> "none", cls |-> 0, proba_err |-> "none", proba |-> <<>>]

\* What the two oracle calls of one request can do: predict raises, predict
\* returns a class and predict_proba raises, or both return.
OracleOutcomes ==
    { [predict_err |-> "feature count mismatch", cls |-> 0, proba_err |-> "none",
       proba |-> <<>>] }
    \cup { [predict_err |-> "none", cls |-> c, proba_err |-> "not fitted", proba |-> <<>>]
           : c \in {1} }
    \cup { [predict_err |-> "none", cls |-> c, proba_err |-> "none", proba |-> p]
           : c \in {-1, 0, 1, 2}, p \in ProbDists }

\* The network: live (every call draws its own answer), or pinned to fixed
\* answers as a test harness with mocked collaborators does.
Live == [pinned |-> FALSE, dns |-> "ok", whois |-> WhoisError, http |-> HttpError,
         oracle |-> NoOracle]

Scenarios ==
    [ pinned : {TRUE},
      dns : {"ok", "Timeout"},
      whois : WhoisOutcomes,
      http : {r \in HttpResponses : ~r.net_error /\ r.status = 200},
      oracle : {o \in OracleOutcomes : o.proba = <<Scale, 0, 0>> /\ o.cls \in {-1, 1}} ]

vars == <<pc, url, clock, net, gate, dns2, nowSeen, features, vals, calls,
          oracleOut, exc, ret, response, prev, sig>>

NoCalls == [dns |-> 0, whois |-> 0, http |-> 0, oracle |-> 0]
NoRet == [label |-> "", confidence |-> 0]
NoResponse == [status |-> "none"]
NoPrev == [set |-> FALSE, url |-> <<>>, now |-> -1, features |-> <<>>, pc |-> "",
           exc |-> "", response |-> NoResponse]
NoSig == [fn |-> "", url |-> <<>>, dns |-> "none", http |-> HttpError, out |-> Ret(0)]

\* the collaborators' answers a call can get
DnsIn == IF net.pinned THEN {net.dns} ELSE DnsOutcomes
WhoisIn == IF net.pinned THEN {net.whois} ELSE WhoisOutcomes
HttpIn == IF net.pinned THEN {net.http} ELSE HttpResponses
OracleIn == IF net.pinned THEN {net.oracle} ELSE OracleOutcomes

Init ==
    /\ pc = "idle"
    /\ url = <<>>
    /\ clock = 0
    /\ net = Live
    /\ gate = "none"
    /\ dns2 = "none"
    /\ nowSeen = -1
    /\ features = <<>>
    /\ vals = <<>>
    /\ calls = NoCalls
    /\ oracleOut = NoOracle
    /\ exc = "none"
    /\ ret = NoRet
    /\ response = NoResponse
    /\ prev = NoPrev
    /\ sig = NoSig

\* ------------------------------------------------------------ the endpoint
\* predict_url_endpoint, up to the call of predict_url
Normalize(raw) ==
    IF StartsWith(raw, HTTP_PREFIX) \/ StartsWith(raw, HTTPS_PREFIX)
    THEN raw
    ELSE HTTPS_PREFIX \o raw

Request ==
    /\ pc = "idle"
    /\ \E raw \in RawUrls : url' = Normalize(raw)
    /\ pc' = "gate"
    /\ UNCHANGED <<clock, net, gate, dns2, nowSeen, features, vals, calls, oracleOut,
                   exc, ret, response, prev, sig>>

\* ------------------------------------------------------------- predict_url
\* if dns_record(url) == -1: return "Unsafe (Phishing)", 1.0
Gate ==
    /\ pc = "gate"
    /\ \E d \in DnsIn :
         LET r == dns_record(url, d)
         IN  /\ gate' = resolve(get_domain(url), d)
             /\ calls' = [calls EXCEPT !.dns = @ + 1]
             /\ IF r.exc # "none"
                THEN pc' = "raised" /\ exc' = r.exc /\ ret' = ret
                ELSE IF r.val = -1
                THEN /\ pc' = "respond"
                     /\ ret' = [label |-> "Unsafe (Phishing)", confidence |-> Scale]
                     /\ exc' = exc
                ELSE pc' = "slots1to9" /\ ret' = ret /\ exc' = exc
    /\ UNCHANGED <<url, clock, net, dns2, nowSeen, features, vals, oracleOut,
                   response, prev, sig>>

\* The elements of the features list, in the order the list names them, each
\* with the function that computes it; the list is cut where a collaborator
\* is called.
Slots1to9(u, w) ==
    << <<"having_ip_address", having_ip_address(u)>>,
       <<"url_length", url_length(u)>>,
       <<"shortening_service", shortening_service(u)>>,
       <<"having_at_symbol", having_at_symbol(u)>>,
       <<"double_slash_redirecting", double_slash_redirecting(u)>>,
       <<"prefix_suffix", prefix_suffix(u)>>,
       <<"having_sub_domain", having_sub_domain(u)>>,
       <<"ssl_final_state", ssl_final_state(u)>>,
       <<"domain_registration_length", domain_registration_length(u, w)>> >>

Slots10(u, r) == << <<"favicon", favicon(u, r)>> >>

Slots11to13(u, r) ==
    << <<"port", port(u)>>,
       <<"https_token", https_token(u)>>,
       <<"request_url", request_url(u, r)>> >>

Slots14(u, r) == << <<"url_of_anchor", url_of_anchor(u, r)>> >>

Slots15to18(u, w) ==
    << <<"links_in_tags", links_in_tags(u)>>,
       <<"sfh", sfh(u)>>,
       <<"submitting_to_email", submitting_to_email(u)>>,
       <<"abnormal_url", abnormal_url(u, w)>> >>

Slots19to24(u, w, now) ==
    << <<"redirect", redirect(u)>>,
       <<"on_mouseover", on_mouseover(u)>>,
       <<"right_click", right_click(u)>>,
       <<"popup_window", popup_window(u)>>,
       <<"iframe", iframe(u)>>,
       <<"age_of_domain", age_of_domain(u, w, now)>> >>

\* mutant: two neighbouring entries of the list are exchanged
Slots25to30_swapped(u, d) ==
    << <<"web_traffic", web_traffic(u)>>,
       <<"dns_record", dns_record(u, d)>>,
       <<"page_rank", page_rank(u)>>,
       <<"google_index", google_index(u)>>,
       <<"links_pointing_to_page", links_pointing_to_page(u)>>,
       <<"statistical_report", statistical_report(u)>> >>

Slots25to30(u, d) ==
    << <<"dns_record", dns_record(u, d)>>,
       <<"web_traffic", web_traffic(u)>>,
       <<"page_rank", page_rank(u)>>,
       <<"google_index", google_index(u)>>,
       <<"links_pointing_to_page", links_pointing_to_page(u)>>,
       <<"statistical_report", statistical_report(u)>> >>

\* Evaluating the list elements seg in order: the first one that raises ends
\* predict_url with its exception; otherwise their values extend the list.
\* The collaborator kind is called by element io, if evaluation gets there.
Evaluate(seg, kind, io, nextpc) ==
    LET bad == {i \in 1..Len(seg) : seg[i][2].exc # "none"}
        first == CHOOSE i \in bad : \A j \in bad : i <= j
        called == bad = {} \/ first >= io
    IN  /\ calls' = IF called THEN [calls EXCEPT ![kind] = @ + 1] ELSE calls
        /\ IF bad = {}
           THEN /\ features' = features \o [i \in 1..Len(seg) |-> seg[i][2].val]
                /\ vals' = [n \in DOMAIN vals \cup {seg[i][1] : i \in 1..Len(seg)} |->
                              IF \E i \in 1..Len(seg) : seg[i][1] = n
                              THEN LET i == CHOOSE k \in 1..Len(seg) : seg[k][1] = n
                                   IN  seg[i][2].val
                              ELSE vals[n]]
                /\ pc' = nextpc
                /\ exc' = exc
           ELSE /\ pc' = "raised"
                /\ exc' = seg[first][2].exc
                /\ UNCHANGED <<features, vals>>

EvalSlots1to9 ==
    /\ pc = "slots1to9"
    /\ \E w \in WhoisIn : \E seg \in {Slots1to9(url, w)} :
         Evaluate(seg, "whois", 9, "slots10")
    /\ UNCHANGED <<url, clock, net, gate, dns2, nowSeen, oracleOut, ret, response,
                   prev, sig>>

EvalSlots10 ==
    /\ pc = "slots10"
    /\ \E r \in HttpIn : \E seg \in {Slots10(url, r)} :
         Evaluate(seg, "http", 1, "slots11to13")
    /\ UNCHANGED <<url, clock, net, gate, dns2, nowSeen, oracleOut, ret, response,
                   prev, sig>>

EvalSlots11to13 ==
    /\ pc = "slots11to13"
    /\ \E r \in HttpIn : \E seg \in {Slots11to13(url, r)} :
         Evaluate(seg, "http", 3, "slots14")
    /\ UNCHANGED <<url, clock, net, gate, dns2, nowSeen, oracleOut, ret, response,
                   prev, sig>>

EvalSlots14 ==
    /\ pc = "slots14"
    /\ \E r \in HttpIn : \E seg \in {Slots14(url, r)} :
         Evaluate(seg, "http", 1, "slots15to18")
    /\ UNCHANGED <<url, clock, net, gate, dns2, nowSeen, oracleOut, ret, response,
                   prev, sig>>

EvalSlots15to18 ==
    /\ pc = "slots15to18"
    /\ \E w \in WhoisIn : \E seg \in {Slots15to18(url, w)} :
         Evaluate(seg, "whois", 4, "slots19to24")
    /\ UNCHANGED <<url, clock, net, gate, dns2, nowSeen, oracleOut, ret, response,
                   prev, sig>>

EvalSlots19to24 ==
    /\ pc = "slots19to24"
    /\ \E w \in WhoisIn : \E seg \in {Slots19to24(url, w, clock)} :
         Evaluate(seg, "whois", 6, "slots25to30")
    /\ nowSeen' = clock
    /\ UNCHANGED <<url, clock, net, gate, dns2, oracleOut, ret, response, prev, sig>>

EvalSlots25to30 ==
    /\ pc = "slots25to30"
    /\ \E d \in DnsIn : \E seg \in {Slots25to30(url, d)} :
         /\ Evaluate(seg, "dns", 1, "classify")
         /\ dns2' = resolve(get_domain(url), d)
    /\ UNCHANGED <<url, clock, net, gate, nowSeen, oracleOut, ret, response, prev, sig>>

\* label_map.get(prediction, "Unknown")
label_map_get(c) ==
    CASE c = 1 -> "Safe"
      [] c = 0 -> "Neutral"
      [] c = -1 -> "Unsafe (Phishing)"
      [] OTHER -> "Unknown"

\* mutant: the confidence is read from the first class instead of the largest
confidence_first(p) == p[1]

\* max(probabilities)
confidence_of(p) == CHOOSE x \in {p[i] : i \in 1..Len(p)} : \A i \in 1..Len(p) : x >= p[i]

\* f"Error during prediction: {e}"
FmtError(e) ==
    CASE e = "feature count mismatch" -> "Error during prediction: feature count mismatch"
      [] e = "not fitted" -> "Error during prediction: not fitted"
      [] OTHER -> "Error during prediction: "

\* the try block: model.predict, model.predict_proba, the label and confidence
Classify ==
    /\ pc = "classify"
    /\ \E o \in OracleIn :
         /\ oracleOut' = o
         /\ IF o.predict_err # "none"
            THEN /\ calls' = [calls EXCEPT !.oracle = @ + 1]
                 /\ ret' = [label |-> FmtError(o.predict_err), confidence |-> 0]
            ELSE IF o.proba_err # "none"
            THEN /\ calls' = [calls EXCEPT !.oracle = @ + 2]
                 /\ ret' = [label |-> FmtError(o.proba_err), confidence |-> 0]
            ELSE /\ calls' = [calls EXCEPT !.oracle = @ + 2]
                 /\ ret' = [label |-> label_map_get(o.cls),
                            confidence |-> confidence_of(o.proba)]
    /\ pc' = "respond"
    /\ UNCHANGED <<url, clock, net, gate, dns2, nowSeen, features, vals, exc,
                   response, prev, sig>>

\* predict_url_endpoint, after predict_url returned
Respond ==
    /\ pc = "respond"
    /\ response' = [prediction |-> ret.label, confidence |-> ret.confidence, url |-> url]
    /\ pc' = "done"
    /\ UNCHANGED <<url, clock, net, gate, dns2, nowSeen, features, vals, calls,
                   oracleOut, exc, ret, prev, sig>>

\* The request is over (answered, or ended by an exception); nothing of it is
\* kept by the program. Under a pinned network the harness notes its result.
Finish ==
    /\ pc \in {"done", "raised"}
    /\ prev' = IF net.pinned
               THEN [set |-> TRUE, url |-> url, now |-> nowSeen, features |-> features,
                     pc |-> pc, exc |-> exc, response |-> response]
               ELSE prev
    /\ pc' = "idle"
    /\ url' = <<>>
    /\ gate' = "none"
    /\ dns2' = "none"
    /\ nowSeen' = -1
    /\ features' = <<>>
    /\ vals' = <<>>
    /\ calls' = NoCalls
    /\ oracleOut' = NoOracle
    /\ exc' = "none"
    /\ ret' = NoRet
    /\ response' = NoResponse
    /\ UNCHANGED <<clock, net, sig>>

\* ---------------------------------------------------------- the environment
Tick ==
    /\ clock < MaxTicks
    /\ clock' = clock + 1
    /\ UNCHANGED <<pc, url, net, gate, dns2, nowSeen, features, vals, calls,
                   oracleOut, exc, ret, response, prev, sig>>

Pin ==
    /\ pc = "idle"
    /\ ~net.pinned
    /\ net' \in Scenarios
    /\ prev' = NoPrev
    /\ UNCHANGED <<pc, url, clock, gate, dns2, nowSeen, features, vals, calls,
                   oracleOut, exc, ret, response, sig>>

Unpin ==
    /\ pc = "idle"
    /\ net.pinned
    /\ net' = Live
    /\ prev' = NoPrev
    /\ UNCHANGED <<pc, url, clock, gate, dns2, nowSeen, features, vals, calls,
                   oracleOut, exc, ret, response, sig>>

Next ==
    \/ Request
    \/ Gate
    \/ EvalSlots1to9
    \/ EvalSlots10
    \/ EvalSlots11to13
    \/ EvalSlots14
    \/ EvalSlots15to18
    \/ EvalSlots19to24
    \/ EvalSlots25to30
    \/ Classify
    \/ Respond
    \/ Finish
    \/ Tick
    \/ Pin
    \/ Unpin

Spec == Init /\ [][Next]_vars

\* ------------------------------------------ signal functions called directly
\* The strings a signal function is called with: what the endpoint passes on,
\* and strings without a scheme.
SigUrls == RawUrls \cup {Normalize(raw) : raw \in RawUrls}

\* Pages with s same-host images, e images of another host and k img elements
\* without src.
MaxImgs == 5

ImgCases ==
    { <<s, e, 0>> : s \in 0..MaxImgs, e \in 0..MaxImgs }
    \cup { <<0, 0, 2>>, <<39, 11, 0>>, <<78, 22, 3>>, <<79, 21, 1>>,
           <<39, 61, 0>>, <<40, 60, 0>> }

ImgPage(c) ==
    Page(200, <<>>, Rep(Elem(Href_rel), c[1]) \o Rep(Elem(Href_ext), c[2])
                    \o Rep(ElemNoAttr, c[3]), <<>>)

ImgResponses ==
    {HttpError, Page(404, <<>>, <<Elem(Href_ext)>>, <<>>)} \cup {ImgPage(c) : c \in ImgCases}

SigOf(fn, u, d, r, out) == [fn |-> fn, url |-> u, dns |-> d, http |-> r, out |-> out]

Call_having_ip_address ==
    /\ sig = NoSig
    /\ \E u \in SigUrls :
         sig' = SigOf("having_ip_address", u, "none", HttpError, having_ip_address(u))
    /\ UNCHANGED <<pc, url, clock, net, gate, dns2, nowSeen, features, vals, calls,
                   oracleOut, exc, ret, response, prev>>

Call_url_length ==
    /\ sig = NoSig
    /\ \E u \in SigUrls :
         sig' = SigOf("url_length", u, "none", HttpError, url_length(u))
    /\ UNCHANGED <<pc, url, clock, net, gate, dns2, nowSeen, features, vals, calls,
                   oracleOut, exc, ret, response, prev>>

Call_shortening_service ==
    /\ sig = NoSig
    /\ \E u \in SigUrls :
         sig' = SigOf("shortening_service", u, "none", HttpError, shortening_service(u))
    /\ UNCHANGED <<pc, url, clock, net, gate, dns2, nowSeen, features, vals, calls,
                   oracleOut, exc, ret, response, prev>>

Call_having_at_symbol ==
    /\ sig = NoSig
    /\ \E u \in SigUrls :
         sig' = SigOf("having_at_symbol", u, "none", HttpError, having_at_symbol(u))
    /\ UNCHANGED <<pc, url, clock, net, gate, dns2, nowSeen, features, vals, calls,
                   oracleOut, exc, ret, response, prev>>

Call_double_slash_redirecting ==
    /\ sig = NoSig
    /\ \E u \in SigUrls :
         sig' = SigOf("double_slash_redirecting", u, "none", HttpError, double_slash_redirecting(u))
    /\ UNCHANGED <<pc, url, clock, net, gate, dns2, nowSeen, features, vals, calls,
                   oracleOut, exc, ret, response, prev>>

Call_prefix_suffix ==
    /\ sig = NoSig
    /\ \E u \in SigUrls :
         sig' = SigOf("prefix_suffix", u, "none", HttpError, prefix_suffix(u))
    /\ UNCHANGED <<pc, url, clock, net, gate, dns2, nowSeen, features, vals, calls,
                   oracleOut, exc, ret, response, prev>>

Call_having_sub_domain ==
    /\ sig = NoSig
    /\ \E u \in SigUrls :
         sig' = SigOf("having_sub_domain", u, "none", HttpError, having_sub_domain(u))
    /\ UNCHANGED <<pc, url, clock, net, gate, dns2, nowSeen, features, vals, calls,
                   oracleOut, exc, ret, response, prev>>

Call_ssl_final_state ==
    /\ sig = NoSig
    /\ \E u \in SigUrls :
         sig' = SigOf("ssl_final_state", u, "none", HttpError, ssl_final_state(u))
    /\ UNCHANGED <<pc, url, clock, net, gate, dns2, nowSeen, features, vals, calls,
                   oracleOut, exc, ret, response, prev>>

Call_dns_record ==
    /\ sig = NoSig
    /\ \E u \in SigUrls, d \in DnsOutcomes :
         sig' = SigOf("dns_record", u, d, HttpError, dns_record(u, d))
    /\ UNCHANGED <<pc, url, clock, net, gate, dns2, nowSeen, features, vals, calls,
                   oracleOut, exc, ret, response, prev>>

Call_request_url ==
    /\ sig = NoSig
    /\ \E u \in SigUrls, r \in ImgResponses :
         sig' = SigOf("request_url", u, "none", r, request_url(u, r))
    /\ UNCHANGED <<pc, url, clock, net, gate, dns2, nowSeen, features, vals, calls,
                   oracleOut, exc, ret, response, prev>>

\* the caller has taken the result
Return ==
    /\ sig # NoSig
    /\ sig' = NoSig
    /\ UNCHANGED <<pc, url, clock, net, gate, dns2, nowSeen, features, vals, calls,
                   oracleOut, exc, ret, response, prev>>

NextSignals ==
    \/ Call_having_ip_address
    \/ Call_url_length
    \/ Call_shortening_service
    \/ Call_having_at_symbol
    \/ Call_double_slash_redirecting
    \/ Call_prefix_suffix
    \/ Call_having_sub_domain
    \/ Call_ssl_final_state
    \/ Call_dns_record
    \/ Call_request_url
    \/ Return

SpecSignals == Init /\ [][NextSignals]_vars

\* ===================================================================== claims
Terminal == pc \in {"done", "raised"}
VectorBuilt == Len(features) = 30
OracleFailed == oracleOut.predict_err # "none" \/ oracleOut.proba_err # "none"
Unsafe == [label |-> "Unsafe (Phishing)", confidence |-> Scale]

\* C1: whenever the gate's DNS lookup fails, predict_url returns exactly
\* ("Unsafe (Phishing)", 1.0) and the request makes no WHOIS call, no HTTP fetch
\* and no classifier call.
C1_DnsShortCircuit ==
    gate \notin {"none", "ok"} =>
        /\ calls.whois = 0 /\ calls.http = 0 /\ calls.oracle = 0
        /\ pc # "raised"
        /\ pc \in {"respond", "done"} => ret = Unsafe

\* The slot order of the feature vector, by the function that fills each slot.
SlotOrder ==
    << "having_ip_address", "url_length", "shortening_service", "having_at_symbol",
       "double_slash_redirecting", "prefix_suffix", "having_sub_domain",
       "ssl_final_state", "domain_registration_length", "favicon", "port",
       "https_token", "request_url", "url_of_anchor", "links_in_tags", "sfh",
       "submitting_to_email", "abnormal_url", "redirect", "on_mouseover",
       "right_click", "popup_window", "iframe", "age_of_domain", "dns_record",
       "web_traffic", "page_rank", "google_index", "links_pointing_to_page",
       "statistical_report" >>

\* C2: the vector handed to the classifier has exactly 30 entries, each of them
\* -1, 0 or 1, and slot i holds the value of the i-th signal of the fixed order.
C2_VectorContract ==
    (pc = "classify" \/ calls.oracle > 0) =>
        /\ Len(features) = 30
        /\ \A i \in 1..Len(features) : features[i] \in {-1, 0, 1}
        /\ DOMAIN vals = {SlotOrder[i] : i \in 1..30}
        /\ \A i \in 1..Len(features) : features[i] = vals[SlotOrder[i]]

\* C2 witness: a vector is handed to the classifier that holds all three signal
\* values, with a borderline image ratio and a failed second DNS lookup.
C2_Witness ==
    /\ calls.oracle > 0
    /\ Len(features) = 30
    /\ features[13] = 0
    /\ features[25] = -1
    /\ features[1] = 1

\* C3: no signal function raises, whatever the URL and whatever the
\* collaborators answer.
C3_SignalsNeverRaise == sig.out.exc = "none"

\* C4: dns_record returns 1 when the A-record lookup succeeds and -1 for every
\* other outcome of the lookup, and lets no lookup error escape.
C4_DnsRecordTotal ==
    sig.fn = "dns_record" =>
        sig.out = IF resolve(get_domain(sig.url), sig.dns) = "ok" THEN Ret(1) ELSE Ret(-1)

\* the shape of a verdict: a label and a confidence
VerdictShaped(r) == {"prediction", "confidence"} \subseteq DOMAIN r

\* C5: when the oracle call fails, what the caller receives is not in the
\* verdict shape (label + confidence).
C5_OracleErrorIsNoVerdict ==
    (pc = "done" /\ OracleFailed) => ~VerdictShaped(response)

\* C6: when both oracle calls return, the label is "Safe" for class 1, "Neutral"
\* for class 0, "Unsafe (Phishing)" for class -1 and "Unknown" for any other
\* class, and the confidence is the largest entry of the distribution, between
\* 0 and 1.
C6_VerdictResolver ==
    (pc \in {"respond", "done"} /\ calls.oracle = 2 /\ ~OracleFailed) =>
        /\ (oracleOut.cls = 1 => ret.label = "Safe")
        /\ (oracleOut.cls = 0 => ret.label = "Neutral")
        /\ (oracleOut.cls = -1 => ret.label = "Unsafe (Phishing)")
        /\ (oracleOut.cls \notin {-1, 0, 1} => ret.label = "Unknown")
        /\ \E i \in 1..Len(oracleOut.proba) : ret.confidence = oracleOut.proba[i]
        /\ \A i \in 1..Len(oracleOut.proba) : ret.confidence >= oracleOut.proba[i]
        /\ ret.confidence \in 0..Scale
        /\ (pc = "done" => /\ response.prediction = ret.label
                           /\ response.confidence = ret.confidence)

\* C6 witness: an unmapped class was answered with "Unknown" and the confidence
\* is the largest probability, which is not the first entry.
C6_Witness ==
    /\ pc = "done"
    /\ calls.oracle = 2
    /\ oracleOut.cls = 2
    /\ oracleOut.proba = <<1, Scale - 3, 2>>
    /\ response.prediction = "Unknown"
    /\ response.confidence = Scale - 3

SameOutcome ==
    /\ prev.features = features
    /\ prev.pc = pc
    /\ prev.exc = exc
    /\ prev.response = response

\* C7 as stated: two classifications of the same URL against the same DNS, WHOIS
\* and HTTP answers and the same oracle give identical vectors and verdicts,
\* whenever they are run.
C7_Idempotent ==
    (Terminal /\ prev.set /\ prev.url = url) => SameOutcome

\* C7 amended: two classifications of the same URL against the same DNS, WHOIS
\* and HTTP answers and the same oracle give identical vectors and verdicts when
\* age_of_domain reads the same current day in both.
C7_IdempotentOnSameDay ==
    (Terminal /\ prev.set /\ prev.url = url /\ prev.now = nowSeen) => SameOutcome

\* C7 witness: a second full classification of a URL under the same pinned
\* answers has ended on the day of the first one, with the same result.
C7_Witness ==
    /\ pc = "done"
    /\ prev.set
    /\ prev.url = url
    /\ prev.now = nowSeen
    /\ nowSeen = 1
    /\ VectorBuilt
    /\ features[24] = 1
    /\ prev.response = response

\* the img elements with a src of the page of the last direct call, and those
\* of them that point to the other host
ImgsWithSrc == {i \in 1..Len(sig.http.imgs) : sig.http.imgs[i].has_attr}
ImgsExternal == {i \in ImgsWithSrc : sig.http.imgs[i].attr \in {Href_ext, Href_proto}}
FetchFailed ==
    \/ sig.http.net_error
    \/ sig.http.status >= 400
    \/ Unpreparable(urlparse(sig.url))

\* C8: with n >= 1 img elements carrying a src, e of them on another host, the
\* signal is 1 when 100*e/n < 22, 0 when 22 <= 100*e/n < 61 and -1 when
\* 100*e/n >= 61; without such an element it is 1; when the fetch fails it is -1.
C8_ImageRatio ==
    sig.fn = "request_url" =>
        LET n == Cardinality(ImgsWithSrc)
            e == Cardinality(ImgsExternal)
        IN  IF FetchFailed THEN sig.out = Ret(-1)
            ELSE IF n = 0 THEN sig.out = Ret(1)
            ELSE /\ (100 * e < 22 * n => sig.out = Ret(1))
                 /\ (22 * n <= 100 * e /\ 100 * e < 61 * n => sig.out = Ret(0))
                 /\ (100 * e >= 61 * n => sig.out = Ret(-1))

\* C8 witness: request_url ran on a fetched page with 50 images of which 11,
\* exactly 22%, are external, and returned 0.
C8_Witness ==
    /\ sig.fn = "request_url"
    /\ ~FetchFailed
    /\ Cardinality(ImgsWithSrc) = 50
    /\ Cardinality(ImgsExternal) = 11
    /\ sig.out = Ret(0)

\* C9: for a URL whose host is empty or could not be parsed, the lexical signals
\* that need the host return -1.
C9_EmptyHostIsSuspicious ==
    ( /\ sig.fn \in {"prefix_suffix", "having_ip_address", "shortening_service",
                     "having_sub_domain"}
      /\ (get_domain(sig.url).none \/ get_domain(sig.url).s = <<>>) )
    => sig.out = Ret(-1)

\* C10: every vector passed to the classifier holds 1 in the DNS slot, and the
\* second lookup never ends the request.
C10_DnsSlotAgreesWithGate ==
    /\ VectorBuilt => features[25] = 1
    /\ dns2 # "none" => pc # "raised"

====
